---- MODULE Spec2Model ----
(***************************************************************************)
(* json_to_duckdb.py: load a top-level JSON dictionary into a DuckDB       *)
(* table.  The model follows main() and dict_to_duckdb() statement by      *)
(* statement; Python dicts are sequences of <<key, value>> pairs because   *)
(* they keep insertion order, and a Python value is a record [t, v] of its *)
(* type and its content.                                                   *)
(***************************************************************************)
EXTENDS Integers, Sequences, FiniteSets, TLC

\* ------------------------------------------------------------------ bounds
\* Largest number of top-level keys of the input document.
MaxRecords == 2
\* Largest number of payload values (fields, or a non-mapping payload) in the
\* whole input document.
MaxCells == 2

\* ------------------------------------------------------------ Python values
Val(t, v) == [t |-> t, v |-> v]
None == Val("null", "None")
PyTrue == Val("bool", "True")
PyInt(s) == Val("int", s)
PyFloat(s) == Val("float", s)
PyStr(s) == Val("str", s)
\* A list and a nested object, named by their text in the input file.
PyList == Val("list", "[1,2,3]")
PyObj == Val("dict", "{\"a\":1}")

\* The values a field of a payload can hold after json.loads.
Values ==
  {None, PyTrue, PyInt("1"), PyFloat("2.5"), PyStr("foo"), PyList, PyObj}
\* The values a non-mapping payload can be (a mapping payload is flattened).
Scalars == Values \ {PyObj}

\* Keys of the top-level dictionary, in document order.
RecordIds == <<"q1", "q2", "q3", "q4">>
\* Field names a mapping payload can use.
FieldNames == {"record_id", "x"}

\* ------------------------------------------------- insertion-ordered dicts
Keys(d) == {d[i][1] : i \in DOMAIN d}
Has(d, k) == \E i \in DOMAIN d : d[i][1] = k
Get(d, k) == d[CHOOSE i \in DOMAIN d : d[i][1] = k][2]
\* d[k] = v: an existing key keeps its place, a new key goes last.
Set(d, k, v) ==
  IF Has(d, k)
    THEN [i \in DOMAIN d |-> IF d[i][1] = k THEN <<k, v>> ELSE d[i]]
    ELSE Append(d, <<k, v>>)
\* d.get(k): None when the key is absent.
GetOrNone(d, k) == IF Has(d, k) THEN Get(d, k) ELSE None

\* ------------------------------------------------------------------- kinds
TYPE_ORDER == <<"BIGINT", "DOUBLE", "TEXT">>
Kinds == {TYPE_ORDER[i] : i \in DOMAIN TYPE_ORDER}

\* order.get(t, 2): the 0-based place of t in TYPE_ORDER, 2 when unknown.
OrderGet(t) ==
  IF t \in Kinds THEN (CHOOSE i \in DOMAIN TYPE_ORDER : TYPE_ORDER[i] = t) - 1
  ELSE 2

Max2(a, b) == IF a >= b THEN a ELSE b

MergeType_first(t1, t2) == t1

MergeType_last(t1, t2) == t2

MergeType(t1, t2) ==
  IF t1 = t2 THEN t1
  ELSE TYPE_ORDER[Max2(OrderGet(t1), OrderGet(t2)) + 1]

\* ------------------------------------------------------------ _to_cell_value
IsInt_any(x) == x.t \in {"int", "bool"}

\* bool is a subclass of int in Python: the first conjunct excludes it.
IsInt(x) == x.t # "bool" /\ x.t \in {"int", "bool"}

IsFloat(x) == x.t = "float"

\* json.dumps(v, ensure_ascii=False) with the default separators.
JsonDumps(x) ==
  CASE x.t = "bool" -> (IF x.v = "True" THEN "true" ELSE "false")
    [] x = PyList -> "[1, 2, 3]"
    [] x = PyObj -> "{\"a\": 1}"
    [] OTHER -> x.v

\* Whether json.dumps accepts the value (anything json.loads can produce).
JsonSerializable(x) == x.t \in {"null", "bool", "int", "float", "str", "list", "dict"}

\* str(v) for every value that is not None, with the kinds left as they are.
ToCellValue_stringify(x) ==
  IF x = None THEN [val |-> None, t |-> "TEXT"]
  ELSE [val |-> PyStr(x.v),
        t |-> IF x.t = "int" THEN "BIGINT" ELSE IF x.t = "float" THEN "DOUBLE" ELSE "TEXT"]

ToCellValue(x) ==
  IF x = None THEN [val |-> None, t |-> "TEXT"]
  ELSE IF IsInt(x) THEN [val |-> x, t |-> "BIGINT"]
  ELSE IF IsFloat(x) THEN [val |-> x, t |-> "DOUBLE"]
  ELSE IF x.t = "str" THEN [val |-> x, t |-> "TEXT"]
  ELSE IF JsonSerializable(x) THEN [val |-> PyStr(JsonDumps(x)), t |-> "TEXT"]
  ELSE [val |-> PyStr(x.v), t |-> "TEXT"]

\* -------------------------------------------------------------- the inputs
Mapping(f) == [m |-> TRUE, f |-> f, s |-> None]
NonMapping(s) == [m |-> FALSE, f |-> <<>>, s |-> s]

\* Sequences of n distinct field names.
NameSeqs(n) ==
  {ns \in [1..n -> FieldNames] : \A i, j \in 1..n : i # j => ns[i] # ns[j]}

\* The payloads that hold exactly c values.
PayloadsOf(c) ==
  {Mapping([i \in 1..c |-> <<ns[i], vs[i]>>]) :
     ns \in NameSeqs(c), vs \in [1..c -> Values]}
  \cup (IF c = 1 THEN {NonMapping(s) : s \in Scalars} ELSE {})

RECURSIVE DictsFrom(_, _, _)
\* The dictionaries of n more records, the next key being RecordIds[i], that
\* hold at most `cells` values.
DictsFrom(i, n, cells) ==
  IF n = 0 THEN {<<>>}
  ELSE UNION {
         {<<<<RecordIds[i], p>>>> \o rest : rest \in DictsFrom(i + 1, n - 1, cells - c),
                                            p \in PayloadsOf(c)} :
         c \in 0..cells}

Dicts == UNION {DictsFrom(1, n, MaxCells) : n \in 0..MaxRecords}

\* What the --json path holds: nothing, text that is no JSON, a JSON value
\* that is no object, or a JSON object.
Files ==
  {[kind |-> k, dict |-> <<>>] : k \in {"missing", "invalid", "array", "scalar", "null"}}
  \cup {[kind |-> "object", dict |-> d] : d \in Dicts}

\* ------------------------------------------------------------- the database
\* --table: the default of the argument parser.
TableName == "queuedata"
TableNames == {TableName, "other"}

NoTable == [exists |-> FALSE, schema |-> <<>>, rows |-> <<>>]

\* CREATE TABLE IF NOT EXISTS: an existing table is kept as it is.
CreateOrReplaceTable_keep(d, table, schema) ==
  IF d[table].exists THEN d
  ELSE [d EXCEPT ![table] = [exists |-> TRUE, schema |-> schema, rows |-> <<>>]]

\* CREATE OR REPLACE TABLE "table" (cols_sql): one column per schema entry, in
\* the schema's order; the table of that name is dropped and made anew.
CreateOrReplaceTable(d, table, schema) ==
  [d EXCEPT ![table] = [exists |-> TRUE, schema |-> schema, rows |-> <<>>]]

\* cols = list(rows[0].keys())
InsertCols(rows) == [i \in 1..Len(rows[1]) |-> rows[1][i][1]]

\* data = [tuple(r.get(c) for c in cols) for r in rows]
InsertData(rows, cols) ==
  [r \in 1..Len(rows) |-> [c \in 1..Len(cols) |-> GetOrNone(rows[r], cols[c])]]

\* INSERT INTO "table" (col_list) VALUES (?, ...) for one tuple: a column of
\* the table that the column list lacks is stored as NULL.
StoredRow(schema, cols, tuple) ==
  [j \in 1..Len(schema) |->
     IF \E c \in DOMAIN cols : cols[c] = schema[j][1]
       THEN tuple[CHOOSE c \in DOMAIN cols : cols[c] = schema[j][1]]
       ELSE None]

\* executemany over the first n tuples of data.
ExecuteMany(d, table, cols, data, n) ==
  [d EXCEPT ![table].rows =
     @ \o [r \in 1..n |-> StoredRow(d[table].schema, cols, data[r])]]

\* ------------------------------------------------------------- the flattener
RECURSIVE Update(_, _, _)
\* for k, v in payload.items(): row[k] = v   (from the i-th field on)
Update(row, f, i) ==
  IF i > Len(f) THEN row ELSE Update(Set(row, f[i][1], f[i][2]), f, i + 1)

RECURSIVE UpdateDefault(_, _, _)
UpdateDefault(row, f, i) ==
  IF i > Len(f) THEN row
  ELSE UpdateDefault(IF Has(row, f[i][1]) THEN row ELSE Set(row, f[i][1], f[i][2]),
                     f, i + 1)

FlattenRow_keepkey(rec_id, payload) ==
  LET row == <<<<"record_id", PyStr(rec_id)>>>>
  IN IF payload.m THEN UpdateDefault(row, payload.f, 1)
     ELSE Set(row, "data", payload.s)

\* The body of the loop over dictionary.items().
FlattenRow(rec_id, payload) ==
  LET row == <<<<"record_id", PyStr(rec_id)>>>>
  IN IF payload.m THEN Update(row, payload.f, 1)
     ELSE Set(row, "data", payload.s)

\* rows, after the loop: one row per (rec_id, payload), in the dictionary's order.
FlattenRows(dictionary) ==
  [i \in 1..Len(dictionary) |-> FlattenRow(dictionary[i][1], dictionary[i][2])]

\* ------------------------------------------------------ the record_id fix-up
EnsureRecordId_asis(schema) == schema

\* Both branches of `if "record_id" not in schema` end with the column TEXT.
EnsureRecordId(schema) == Set(schema, "record_id", "TEXT")

\* r.setdefault("record_id", None) for every row, when the schema lacked it.
PadRecordId(schema, rs) ==
  IF Has(schema, "record_id") THEN rs
  ELSE [i \in 1..Len(rs) |->
          IF Has(rs[i], "record_id") THEN rs[i] ELSE Set(rs[i], "record_id", None)]

\* isinstance(data, dict)
IsDict_any(f) == f.kind \in {"object", "array"}

IsDict(f) == f.kind = "object"

\* ------------------------------------------------------------------- state
VARIABLES
  file,       \* what the --json path holds
  db,         \* the database file: table name -> table
  db0,        \* the database file as the current run found it
  pc,         \* the statement main / dict_to_duckdb is at
  err,        \* the exception that is propagating, "none" when there is none
  rows,       \* dict_to_duckdb: rows
  col_types,  \* _infer_schema: col_types, then dict_to_duckdb: schema
  ri, fi,     \* _infer_schema: the row and the field the two loops are at
  cell,       \* _infer_schema: the locals k, v, val, t of the last iteration
  con,        \* the connection: "none", "open", "closed"
  mt          \* the arguments and results of the _merge_type calls (SpecMerge)

vars == <<file, db, db0, pc, err, rows, col_types, ri, fi, cell, con, mt>>

NoCell == [k |-> "", v |-> None, val |-> None, t |-> ""]
NoMerge == [a |-> "", b |-> "", c |-> "", step |-> 0, r |-> <<>>]

\* The input of an earlier run, and the table that run left behind.
OldDict == <<<<"q0", Mapping(<<<<"site", PyStr("CERN")>>, <<"capacity", PyInt("100")>>>>)>>>>

\* One iteration of the loops of _infer_schema, on field i of row r:
\*   val, t = _to_cell_value(v); row[k] = val
\*   prev = col_types.get(k); col_types[k] = t if prev is None else _merge_type(prev, t)
InferCell(rs, ct, r, i) ==
  LET k == rs[r][i][1]
      v == rs[r][i][2]
      res == ToCellValue(v)
  IN [rows |-> [rs EXCEPT ![r][i] = <<k, res.val>>],
      col_types |-> IF Has(ct, k) THEN Set(ct, k, MergeType(Get(ct, k), res.t))
                    ELSE Set(ct, k, res.t),
      cell |-> [k |-> k, v |-> v, val |-> res.val, t |-> res.t]]

RECURSIVE InferAll(_, _, _, _)
\* _infer_schema run to its end from field i of row r: <<rows, col_types>>.
InferAll(rs, ct, r, i) ==
  IF r > Len(rs) THEN <<rs, ct>>
  ELSE IF i > Len(rs[r]) THEN InferAll(rs, ct, r + 1, 1)
  ELSE LET c == InferCell(rs, ct, r, i)
       IN InferAll(c.rows, c.col_types, r, i + 1)

\* The table a successful run of dict_to_duckdb on `dictionary` leaves in a
\* database file that had no such table.
FreshTable(dictionary) ==
  LET inf == InferAll(FlattenRows(dictionary), <<>>, 1, 1)
      schema == EnsureRecordId(inf[2])
      rs == PadRecordId(inf[2], inf[1])
      d0 == [n \in TableNames |-> NoTable]
      d1 == CreateOrReplaceTable(d0, TableName, schema)
  IN IF rs = <<>> THEN d1[TableName]
     ELSE ExecuteMany(d1, TableName, InsertCols(rs),
                      InsertData(rs, InsertCols(rs)), Len(rs))[TableName]

OtherTable == [exists |-> TRUE, schema |-> <<<<"id", "BIGINT">>>>, rows |-> <<<<PyInt("7")>>>>]

InitDbs ==
  {[n \in TableNames |-> IF n = TableName THEN t ELSE OtherTable] :
     t \in {NoTable, FreshTable(OldDict)}}

Init ==
  /\ file \in Files
  /\ db \in InitDbs
  /\ db0 = db
  /\ pc = "main"
  /\ err = "none"
  /\ rows = <<>>
  /\ col_types = <<>>
  /\ ri = 1
  /\ fi = 1
  /\ cell = NoCell
  /\ con = "none"
  /\ mt = NoMerge

\* ------------------------------------------------------------------- main
\* if not p.exists(): raise FileNotFoundError
MainNotFound ==
  /\ pc = "main"
  /\ file.kind = "missing"
  /\ pc' = "failed"
  /\ err' = "NotFound"
  /\ UNCHANGED <<file, db, db0, rows, col_types, ri, fi, cell, con, mt>>

\* json.loads raises on text that is no JSON
MainParseError ==
  /\ pc = "main"
  /\ file.kind = "invalid"
  /\ pc' = "failed"
  /\ err' = "ParseError"
  /\ UNCHANGED <<file, db, db0, rows, col_types, ri, fi, cell, con, mt>>

\* if not isinstance(data, dict): raise SystemError
MainNotDict ==
  /\ pc = "main"
  /\ file.kind \notin {"missing", "invalid"}
  /\ ~IsDict(file)
  /\ pc' = "failed"
  /\ err' = "SchemaViolation"
  /\ UNCHANGED <<file, db, db0, rows, col_types, ri, fi, cell, con, mt>>

\* dict_to_duckdb(args.db, args.table, data), up to rows = [dict(r) for r in rows]
Flatten ==
  /\ pc = "main"
  /\ file.kind \notin {"missing", "invalid"}
  /\ IsDict(file)
  /\ rows' = FlattenRows(file.dict)
  /\ col_types' = <<>>
  /\ ri' = 1
  /\ fi' = 1
  /\ pc' = "infer"
  /\ UNCHANGED <<file, db, db0, err, cell, con, mt>>

\* _infer_schema: one iteration of `for k, v in row.items()`
InferStep ==
  /\ pc = "infer"
  /\ ri <= Len(rows)
  /\ LET c == InferCell(rows, col_types, ri, fi)
     IN /\ rows' = c.rows
        /\ col_types' = c.col_types
        /\ cell' = c.cell
  /\ IF fi < Len(rows[ri])
       THEN ri' = ri /\ fi' = fi + 1
       ELSE ri' = ri + 1 /\ fi' = 1
  /\ UNCHANGED <<file, db, db0, pc, err, con, mt>>

\* _infer_schema: return col_types
InferReturn ==
  /\ pc = "infer"
  /\ ri > Len(rows)
  /\ pc' = "fixup"
  /\ UNCHANGED <<file, db, db0, err, rows, col_types, ri, fi, cell, con, mt>>

\* Ensure record_id exists and is TEXT
FixRecordId ==
  /\ pc = "fixup"
  /\ col_types' = EnsureRecordId(col_types)
  /\ rows' = PadRecordId(col_types, rows)
  /\ pc' = "connect"
  /\ UNCHANGED <<file, db, db0, err, ri, fi, cell, con, mt>>

\* con = duckdb.connect(str(db_path))
Connect ==
  /\ pc = "connect"
  /\ con' = "open"
  /\ pc' = "create"
  /\ UNCHANGED <<file, db, db0, err, rows, col_types, ri, fi, cell, mt>>

\* duckdb.connect raises (the path cannot be opened): outside the try block
ConnectFail ==
  /\ pc = "connect"
  /\ err' = "StorageError"
  /\ pc' = "failed"
  /\ UNCHANGED <<file, db, db0, rows, col_types, ri, fi, cell, con, mt>>

\* _create_or_replace_table: no transaction was begun on the connection, so
\* the statement is committed when execute returns.
CreateTable ==
  /\ pc = "create"
  /\ db' = CreateOrReplaceTable(db, TableName, col_types)
  /\ pc' = "insert"
  /\ UNCHANGED <<file, db0, err, rows, col_types, ri, fi, cell, con, mt>>

\* the CREATE statement raises: nothing is changed
CreateTableFail ==
  /\ pc = "create"
  /\ err' = "StorageError"
  /\ pc' = "finally"
  /\ UNCHANGED <<file, db, db0, rows, col_types, ri, fi, cell, con, mt>>

\* _insert_rows: `if not rows: return`, else executemany of all the tuples
InsertRows ==
  /\ pc = "insert"
  /\ db' = IF rows = <<>> THEN db
           ELSE ExecuteMany(db, TableName, InsertCols(rows),
                            InsertData(rows, InsertCols(rows)), Len(rows))
  /\ pc' = "commit"
  /\ UNCHANGED <<file, db0, err, rows, col_types, ri, fi, cell, con, mt>>

\* executemany raises at tuple n + 1: the n tuples before it are stored, each
\* committed as its statement ended
InsertRowsFail ==
  /\ pc = "insert"
  /\ rows # <<>>
  /\ \E n \in 0..(Len(rows) - 1) :
       db' = ExecuteMany(db, TableName, InsertCols(rows),
                         InsertData(rows, InsertCols(rows)), n)
  /\ err' = "StorageError"
  /\ pc' = "finally"
  /\ UNCHANGED <<file, db0, rows, col_types, ri, fi, cell, con, mt>>

\* con.commit(): no transaction is active, there is nothing left to commit
Commit ==
  /\ pc = "commit"
  /\ pc' = "finally"
  /\ UNCHANGED <<file, db, db0, err, rows, col_types, ri, fi, cell, con, mt>>

\* finally: con.close(); then the return, or the exception goes on
Close ==
  /\ pc = "finally"
  /\ con' = "closed"
  /\ pc' = IF err = "none" THEN "print" ELSE "failed"
  /\ UNCHANGED <<file, db, db0, err, rows, col_types, ri, fi, cell, mt>>

\* print(f"Loaded ...")
Loaded ==
  /\ pc = "print"
  /\ pc' = "done"
  /\ UNCHANGED <<file, db, db0, err, rows, col_types, ri, fi, cell, con, mt>>

\* The tool is invoked again with the same arguments: a new process.
NextRun ==
  /\ pc \in {"done", "failed"}
  /\ pc' = "main"
  /\ db0' = db
  /\ err' = "none"
  /\ rows' = <<>>
  /\ col_types' = <<>>
  /\ ri' = 1
  /\ fi' = 1
  /\ cell' = NoCell
  /\ con' = "none"
  /\ UNCHANGED <<file, db, mt>>

Next ==
  \/ MainNotFound
  \/ MainParseError
  \/ MainNotDict
  \/ Flatten
  \/ InferStep
  \/ InferReturn
  \/ FixRecordId
  \/ Connect
  \/ ConnectFail
  \/ CreateTable
  \/ CreateTableFail
  \/ InsertRows
  \/ InsertRowsFail
  \/ Commit
  \/ Close
  \/ Loaded
  \/ NextRun

Spec == Init /\ [][Next]_vars

\* ------------------------------------------------------------- _merge_type
\* The calls of _merge_type on three kinds a, b, c, in this order.
MergeArgs(m) ==
  CASE m.step = 0 -> <<m.a, m.b>>
    [] m.step = 1 -> <<m.b, m.a>>
    [] m.step = 2 -> <<m.b, m.c>>
    [] m.step = 3 -> <<m.r[1], m.c>>
    [] m.step = 4 -> <<m.a, m.r[3]>>
    [] OTHER -> <<m.a, m.a>>

InitMerge ==
  /\ file = [kind |-> "missing", dict |-> <<>>]
  /\ db = [n \in TableNames |-> NoTable]
  /\ db0 = db
  /\ pc = "merge"
  /\ err = "none"
  /\ rows = <<>>
  /\ col_types = <<>>
  /\ ri = 1
  /\ fi = 1
  /\ cell = NoCell
  /\ con = "none"
  /\ mt \in {[a |-> a, b |-> b, c |-> c, step |-> 0, r |-> <<>>] : a, b, c \in Kinds}

MergeCall ==
  /\ pc = "merge"
  /\ mt.step < 6
  /\ mt' = [mt EXCEPT !.step = @ + 1,
                      !.r = Append(@, MergeType(MergeArgs(mt)[1], MergeArgs(mt)[2]))]
  /\ UNCHANGED <<file, db, db0, pc, err, rows, col_types, ri, fi, cell, con>>

NextMerge == MergeCall

SpecMerge == InitMerge /\ [][NextMerge]_vars

\* ------------------------------------------------------------- properties
Rank(t) == OrderGet(t)

\* The rows as the flattener left them, before any coercion.
RawRows == FlattenRows(file.dict)

\* The kind of a value held in a row, by its Python type.
KindOf(x) ==
  CASE x.t = "int" -> "BIGINT"
    [] x.t = "float" -> "DOUBLE"
    [] x.t = "str" -> "TEXT"
    [] OTHER -> "none"

\* The states in which the schema has been handed to the table writer.
Written == {"insert", "commit", "print", "done"}
\* The states after the record_id fix-up.
Fixed == {"connect", "create", "insert", "commit", "finally", "print", "done"}

Table == db[TableName]

\* C1: the schema handed to the table writer always has a column record_id of
\* kind TEXT, also when the payloads define record_id as a number or when no
\* row produced it; for the empty mapping the table is created with exactly
\* that column and holds no rows.
ThmRecordIdText ==
  /\ pc \in Fixed =>
       Has(col_types, "record_id") /\ Get(col_types, "record_id") = "TEXT"
  /\ pc \in Written =>
       /\ Table.exists
       /\ Table.schema = col_types
       /\ Has(Table.schema, "record_id")
       /\ Get(Table.schema, "record_id") = "TEXT"
  /\ (pc = "done" /\ file.dict = <<>>) =>
       Table = [exists |-> TRUE, schema |-> <<<<"record_id", "TEXT">>>>, rows |-> <<>>]

WitEmptyMappingLoaded ==
  /\ pc = "done"
  /\ file.kind = "object"
  /\ file.dict = <<>>
  /\ db0[TableName].rows # <<>>
  /\ Table.rows = <<>>

\* C2: the flattener yields one row per top-level key, in the dictionary's
\* order; a mapping payload gives the fields {record_id} + keys(payload),
\* record_id being the key unless the payload defines it; any other payload
\* gives exactly {record_id, data}.
ThmFlatten ==
  (pc = "infer" /\ ri = 1 /\ fi = 1) =>
    /\ Len(rows) = Len(file.dict)
    /\ \A i \in 1..Len(rows) :
         LET key == file.dict[i][1]
             p == file.dict[i][2]
             row == rows[i]
         IN /\ Cardinality(Keys(row)) = Len(row)
            /\ IF p.m
                 THEN /\ Keys(row) = {"record_id"} \cup Keys(p.f)
                      /\ Get(row, "record_id") =
                           (IF Has(p.f, "record_id") THEN Get(p.f, "record_id")
                            ELSE PyStr(key))
                      /\ \A k \in Keys(p.f) : Get(row, k) = Get(p.f, k)
                 ELSE /\ Keys(row) = {"record_id", "data"}
                      /\ Get(row, "record_id") = PyStr(key)
                      /\ Get(row, "data") = p.s

WitFlattenBothShapes ==
  /\ pc = "infer" /\ ri = 1 /\ fi = 1
  /\ Len(rows) = 2
  /\ file.dict[1][2].m
  /\ Has(file.dict[1][2].f, "record_id")
  /\ Get(rows[1], "record_id") = PyInt("1")
  /\ ~file.dict[2][2].m
  /\ Get(rows[2], "record_id") = PyStr("q2")

\* C3: _merge_type on BIGINT, DOUBLE, TEXT is commutative, associative and
\* idempotent, never yields a kind below either argument, merges BIGINT and
\* DOUBLE to DOUBLE and anything with TEXT to TEXT.
ThmMergeLattice ==
  /\ mt.step >= 1 =>
       /\ Rank(mt.r[1]) >= Rank(mt.a) /\ Rank(mt.r[1]) >= Rank(mt.b)
       /\ mt.r[1] \in {mt.a, mt.b}
       /\ ({mt.a, mt.b} = {"BIGINT", "DOUBLE"} => mt.r[1] = "DOUBLE")
       /\ ("TEXT" \in {mt.a, mt.b} => mt.r[1] = "TEXT")
  /\ mt.step >= 2 => mt.r[2] = mt.r[1]
  /\ mt.step >= 5 => mt.r[5] = mt.r[4]
  /\ mt.step >= 6 => mt.r[6] = mt.a

WitMergeEscalated ==
  /\ mt.step = 6
  /\ mt.a = "BIGINT" /\ mt.b = "DOUBLE" /\ mt.c = "TEXT"
  /\ mt.r[1] = "DOUBLE"
  /\ mt.r[4] = "TEXT"

\* C4: after a successful run the table is what that run alone leaves in a
\* database that had no such table, whatever earlier runs left there.
ThmReplace ==
  pc = "done" => Table = FreshTable(file.dict)

WitSecondRunIdentical ==
  /\ pc = "done"
  /\ Table.rows # <<>>
  /\ db0[TableName] = Table

\* C5: a missing file, text that is no JSON and a JSON value that is no object
\* end the run in a failure before any database operation: no connection was
\* opened and the database is as the run found it.
ThmNoWriteOnBadInput ==
  file.kind # "object" =>
    /\ pc \in {"main", "failed"}
    /\ con = "none"
    /\ db = db0
    /\ pc = "failed" => err \in {"NotFound", "ParseError", "SchemaViolation"}

WitArrayRejected ==
  /\ pc = "failed"
  /\ file.kind = "array"
  /\ err = "SchemaViolation"
  /\ Table.exists

\* C6: table creation and insertion are one committed unit: a run that ends in
\* a storage error leaves the database as it found it, with the connection
\* closed.
CexAtomicUnit ==
  (pc = "failed" /\ err = "StorageError") => (db = db0 /\ con # "open")

\* C7 as claimed: after _infer_schema returns, every value that is not None
\* has the final kind of its column.
CexCoercedToColumnKind ==
  pc = "fixup" =>
    \A i \in 1..Len(rows) : \A j \in 1..Len(rows[i]) :
      rows[i][j][2] # None => KindOf(rows[i][j][2]) = Get(col_types, rows[i][j][1])

\* C7 as amended: after _infer_schema returns, every value that is not None is
\* an integer, a float or a string whose own kind is at most the final kind of
\* its column; integers, floats and strings are held as they came, whatever
\* the column's final kind.
ThmCoercedWithinColumnKind ==
  pc = "fixup" =>
    \A i \in 1..Len(rows) : \A j \in 1..Len(rows[i]) :
      LET k == rows[i][j][1]
          v == rows[i][j][2]
          raw == RawRows[i][j][2]
      IN /\ v # None =>
              /\ KindOf(v) \in Kinds
              /\ Rank(KindOf(v)) <= Rank(Get(col_types, k))
         /\ raw.t \in {"int", "float", "str"} => v = raw

WitIntegerInDoubleColumn ==
  /\ pc = "fixup"
  /\ Len(rows) = 2
  /\ Has(col_types, "x") /\ Get(col_types, "x") = "DOUBLE"
  /\ Has(rows[1], "x") /\ Get(rows[1], "x") = PyInt("1")
  /\ Has(rows[2], "x") /\ Get(rows[2], "x") = PyFloat("2.5")

\* The highest rank among the kinds of the raw values of column k.
ColumnMax(k) ==
  LET ranks == UNION {{Rank(ToCellValue(RawRows[i][j][2]).t) :
                         j \in {j \in DOMAIN RawRows[i] : RawRows[i][j][1] = k}} :
                      i \in DOMAIN RawRows}
  IN CHOOSE r \in ranks : \A q \in ranks : q <= r

\* C8: during the scan of _infer_schema the kind of a column never moves down
\* BIGINT < DOUBLE < TEXT, and when the scan ends the kind of every column is
\* the highest kind among the values seen for it.
ThmEscalateOnly ==
  /\ [][(pc = "infer" /\ pc' \in {"infer", "fixup"}) =>
          \A k \in Keys(col_types) :
            /\ Has(col_types', k)
            /\ Rank(Get(col_types', k)) >= Rank(Get(col_types, k))]_vars
  /\ [](pc = "fixup" =>
          /\ Keys(col_types) = UNION {Keys(RawRows[i]) : i \in DOMAIN RawRows}
          /\ \A k \in Keys(col_types) : Rank(Get(col_types, k)) = ColumnMax(k))

WitTextStaysText ==
  /\ pc = "infer"
  /\ ri = 3
  /\ Has(RawRows[1], "x") /\ Get(RawRows[1], "x") = None
  /\ cell.k = "x" /\ cell.t = "BIGINT"
  /\ Has(col_types, "x") /\ Get(col_types, "x") = "TEXT"

\* What _to_cell_value must return for v.
Classified(c) ==
  CASE c.v.t = "int" -> c.val = c.v /\ c.t = "BIGINT"
    [] c.v.t = "float" -> c.val = c.v /\ c.t = "DOUBLE"
    [] c.v.t = "str" -> c.val = c.v /\ c.t = "TEXT"
    [] c.v.t = "null" -> c.val = None /\ c.t = "TEXT"
    [] OTHER -> c.val.t = "str" /\ c.t = "TEXT"

\* C9: _to_cell_value gives BIGINT to integers but never to booleans, DOUBLE
\* to floats, TEXT to strings (unchanged) and to None, and a string of kind
\* TEXT for everything else; once _infer_schema has returned every value in
\* every row is an integer, a float, a string or None.
ThmStrictClassification ==
  /\ (pc \in {"infer", "fixup"} /\ cell # NoCell) => Classified(cell)
  /\ pc \in (Fixed \cup {"fixup"}) =>
       \A i \in 1..Len(rows) : \A j \in 1..Len(rows[i]) :
         rows[i][j][2].t \in {"int", "float", "str", "null"}

WitBooleanAsText ==
  /\ pc = "infer"
  /\ cell.v = PyTrue
  /\ cell.val = PyStr("true")
  /\ cell.t = "TEXT"

\* The value the table holds in column k of its i-th row.
TableCell(i, k) ==
  Table.rows[i][CHOOSE j \in DOMAIN Table.schema : Table.schema[j][1] = k]

\* C10: after the insert every field of every row is in the table with the
\* row's value, and NULL stands only where the row lacks the column.
CexNoValueLost ==
  pc = "commit" =>
    /\ Len(Table.rows) = Len(rows)
    /\ \A i \in 1..Len(rows) : \A k \in Keys(Table.schema) :
         TableCell(i, k) = (IF Has(rows[i], k) THEN Get(rows[i], k) ELSE None)

====
